---------------------------- MODULE Spec2Model ----------------------------
(***************************************************************************)
(* raylib utils.c: the trace logger (SetTraceLogLevel, SetTraceLogExit,    *)
(* SetTraceLogCallback, TraceLog), the four whole-file helpers             *)
(* (LoadFileData, SaveFileData, LoadFileText, SaveFileText) and the        *)
(* Android asset shim (android_fopen and the funopen adapter functions).   *)
(*                                                                         *)
(* Every operation of the program is one action.  The variable `last`      *)
(* records what the operation that ran last did: the library calls it made *)
(* in order (`events`), what reached each sink, and what it returned.      *)
(* SUPPORT_TRACELOG is taken as defined (the build in which the logger     *)
(* exists); PLATFORM_ANDROID is the build flag `android`.                  *)
(***************************************************************************)
EXTENDS Integers, Sequences, FiniteSets, TLC

VARIABLES
    android,        \* build flag PLATFORM_ANDROID (fixed for a whole run)
    logTypeLevel,   \* static int logTypeLevel
    logTypeExit,    \* static int logTypeExit
    logCallback,    \* static TraceLogCallback logCallback
    proc,           \* the process: "running", "exited" (exit(1)) or "crashed"
    files,          \* the file system: path -> [exists, bytes]
    assets,         \* the asset bundle (read-only): path -> [exists, bytes]
    openFiles,      \* streams a file helper opened that nothing has closed
    stream,         \* the stream a client holds from android_fopen
    saved,          \* the last complete SaveFileData not yet overwritten
    last            \* what the last operation did

vars == <<android, logTypeLevel, logTypeExit, logCallback, proc, files,
          assets, openFiles, stream, saved, last>>

-----------------------------------------------------------------------------
(* Bounds of the model *)

MaxSeverity == 7        \* severities passed and thresholds set: 0..MaxSeverity
ShortFmtLen == 3        \* length of a short format string
FitFmtLen == 117        \* a format that exactly fits behind "WARNING: "
MaxFmtLen == 130        \* length of the longest format string passed
MaxLen == 2             \* longest file content, in bytes

-----------------------------------------------------------------------------
(* Program constants *)

LOG_TRACE == 1
LOG_DEBUG == 2
LOG_INFO == 3
LOG_WARNING == 4
LOG_ERROR == 5
LOG_FATAL == 6

MAX_TRACELOG_MSG_LENGTH == 128

EACCES == 13

NULL == "(null)"        \* the null pointer, distinct from every string used

-----------------------------------------------------------------------------
(* Values *)

Severities == 0..MaxSeverity

RECURSIVE Pad(_)
Pad(n) == IF n = 0 THEN "" ELSE "x" \o Pad(n - 1)

ShortFmt == Pad(ShortFmtLen)
FitFmt == Pad(FitFmtLen)
LongFmt == Pad(MaxFmtLen)
UserFormats == {ShortFmt, FitFmt, LongFmt}

Callbacks == {NULL, "CustomLog"}

Bytes == {0, 1}         \* 0 is the zero byte, 1 any other byte

RECURSIVE SeqsUpTo(_)
SeqsUpTo(n) ==
    IF n = 0 THEN {<<>>}
    ELSE LET shorter == SeqsUpTo(n - 1)
         IN  shorter \cup {Append(s, b) : s \in {t \in shorter : Len(t) = n - 1}, b \in Bytes}

Contents == SeqsUpTo(MaxLen)

Path == "data.bin"
Paths == {Path}
FileNames == {NULL, "", Path}

NoFile == [exists |-> FALSE, bytes |-> <<>>]
FileOf(b) == [exists |-> TRUE, bytes |-> b]

NullBuffer == [null |-> TRUE, bytes |-> <<>>, size |-> 0]

NoStream == [kind |-> "none", name |-> "", pos |-> 0]

NoSave == [valid |-> FALSE, name |-> "", bytes |-> <<>>]

Blank == [op |-> "none",
          logType |-> 0 - 1,    \* severity of the TraceLog call made
          text |-> "",          \* its format string
          traces |-> 0,         \* number of TraceLog calls made
          events |-> <<>>,      \* library calls made, in order
          written |-> "",       \* the string vprintf received
          cbLogType |-> 0 - 1,  \* what the callback received
          cbText |-> "",
          bufBytes |-> 0,       \* bytes stored into char buffer[128]
          ends |-> "return",    \* "return", "exit" or "crash"
          fileName |-> NULL,
          mode |-> <<>>,
          opened |-> FALSE,     \* a stream was opened
          bundle |-> FALSE,     \* the stream reads the asset bundle
          tell |-> 0,           \* what ftell returned
          want |-> 0,           \* bytes asked of fread / fwrite
          count |-> 0,          \* what fread / fwrite / fprintf returned
          alloc |-> 0 - 1,      \* bytes asked of RL_MALLOC, -1: no call
          buffer |-> NullBuffer,
          bytesRead |-> 0,
          result |-> 0]

-----------------------------------------------------------------------------
(* The logger: TraceLog as a function of its arguments and the logger state *)

\* the threshold test off by one: the severity just below the level passes
BelowLevel_offByOne(logType) == logType + 1 < logTypeLevel

\* if (logType < logTypeLevel) return;
BelowLevel(logType) == logType < logTypeLevel

\* if (logType >= logTypeExit) exit(1);
ReachesExit(logType) == logType >= logTypeExit

\* the switch of the default sink: the fixed label of each named severity
PrefixOf(logType) ==
    CASE logType = LOG_TRACE -> "TRACE: "
      [] logType = LOG_DEBUG -> "DEBUG: "
      [] logType = LOG_INFO -> "INFO: "
      [] logType = LOG_WARNING -> "WARNING: "
      [] logType = LOG_ERROR -> "ERROR: "
      [] logType = LOG_FATAL -> "FATAL: "
      [] OTHER -> ""

\* strcpy(buffer, prefix); strcat(buffer, text); strcat(buffer, "\n");
Compose(logType, text) == PrefixOf(logType) \o text \o "\n"

\* bytes the three string calls store into buffer: the string and its '\0'
Stored(logType, text) == Len(Compose(logType, text)) + 1

\* the stores run past char buffer[MAX_TRACELOG_MSG_LENGTH]
Overruns(logType, text) == Stored(logType, text) > MAX_TRACELOG_MSG_LENGTH

\* the switch of the Android sink: severities without a case print nothing
AndroidPrints(logType) == logType \in LOG_TRACE..LOG_FATAL

Quiet == [events |-> <<>>, written |-> "", cbLogType |-> 0 - 1, cbText |-> "",
          bufBytes |-> 0, ends |-> "return"]

\* the lines after va_end(args): the exit check
ExitCheck(logType) == IF ReachesExit(logType) THEN <<"exit">> ELSE <<>>

EndOf(events) ==
    IF events # <<>> /\ events[Len(events)] \in {"exit", "crash"}
    THEN events[Len(events)] ELSE "return"

\* the callback branch without its return: the exit check runs after it
CallbackPath_noReturn(logType, text) ==
    LET ev == <<"logCallback">> \o ExitCheck(logType)
    IN  [Quiet EXCEPT !.events = ev, !.cbLogType = logType, !.cbText = text,
                      !.ends = EndOf(ev)]

\* if (logCallback) { logCallback(logType, text, args); va_end(args); return; }
CallbackPath(logType, text) ==
    [Quiet EXCEPT !.events = <<"logCallback">>,
                  !.cbLogType = logType,
                  !.cbText = text]

\* the Android sink, then the exit check
AndroidPath(logType) ==
    LET ev == (IF AndroidPrints(logType) THEN <<"__android_log_vprint">> ELSE <<>>)
              \o ExitCheck(logType)
    IN  [Quiet EXCEPT !.events = ev, !.ends = EndOf(ev)]

\* the default sink, then the exit check.  When the stores overrun the
\* buffer the behaviour is undefined: `ub` is what the build makes of it,
\* "proceed" (the following calls run as written) or "crash" (the process
\* dies in the string calls, before vprintf).
DefaultPath(logType, text, ub) ==
    LET ev == IF Overruns(logType, text) /\ ub = "crash"
              THEN <<"crash">>
              ELSE <<"vprintf">> \o ExitCheck(logType)
    IN  [Quiet EXCEPT !.events = ev,
                      !.written = IF ev[1] = "vprintf" THEN Compose(logType, text) ELSE "",
                      !.bufBytes = Stored(logType, text),
                      !.ends = EndOf(ev)]

TraceLogEffect(logType, text, ub) ==
    IF BelowLevel(logType) THEN Quiet
    ELSE IF logCallback # NULL THEN CallbackPath(logType, text)
    ELSE IF android THEN AndroidPath(logType)
    ELSE DefaultPath(logType, text, ub)

\* the outcomes the build can produce for a call
UBChoices(logType, text) ==
    IF ~BelowLevel(logType) /\ logCallback = NULL /\ ~android /\ Overruns(logType, text)
    THEN {"proceed", "crash"} ELSE {"proceed"}

ProcAfter(ends) ==
    CASE ends = "return" -> "running"
      [] ends = "exit" -> "exited"
      [] ends = "crash" -> "crashed"

\* `rec` with the effect of one TraceLog(logType, text) call added to it
Logged(rec, logType, text, e) ==
    [rec EXCEPT !.logType = logType, !.text = text, !.traces = @ + 1,
                !.events = @ \o e.events, !.written = e.written,
                !.cbLogType = e.cbLogType, !.cbText = e.cbText,
                !.bufBytes = e.bufBytes, !.ends = e.ends]

-----------------------------------------------------------------------------
(* The logger's operations *)

SetTraceLogLevel(logType) ==
    /\ proc = "running"
    /\ logTypeLevel' = logType
    /\ last' = [Blank EXCEPT !.op = "SetTraceLogLevel"]
    /\ UNCHANGED <<android, logTypeExit, logCallback, proc, files, assets,
                   openFiles, stream, saved>>

SetTraceLogExit(logType) ==
    /\ proc = "running"
    /\ logTypeExit' = logType
    /\ last' = [Blank EXCEPT !.op = "SetTraceLogExit"]
    /\ UNCHANGED <<android, logTypeLevel, logCallback, proc, files, assets,
                   openFiles, stream, saved>>

SetTraceLogCallback(callback) ==
    /\ proc = "running"
    /\ logCallback' = callback
    /\ last' = [Blank EXCEPT !.op = "SetTraceLogCallback"]
    /\ UNCHANGED <<android, logTypeLevel, logTypeExit, proc, files, assets,
                   openFiles, stream, saved>>

\* exit(1) closes every open stream; a crash closes none
StreamsAfter(ends, n) == IF ends = "exit" THEN 0 ELSE n

TraceLog(logType, text, ub) ==
    /\ proc = "running"
    /\ ub \in UBChoices(logType, text)
    /\ LET e == TraceLogEffect(logType, text, ub)
       IN  /\ last' = Logged([Blank EXCEPT !.op = "TraceLog"], logType, text, e)
           /\ proc' = ProcAfter(e.ends)
           /\ openFiles' = StreamsAfter(e.ends, openFiles)
           /\ stream' = IF e.ends = "exit" THEN NoStream ELSE stream
    /\ UNCHANGED <<android, logTypeLevel, logTypeExit, logCallback, files,
                   assets, saved>>

InitLogger ==
    /\ logTypeLevel = LOG_INFO
    /\ logTypeExit = LOG_ERROR
    /\ logCallback = NULL
    /\ proc = "running"
    /\ last = Blank

InitLog ==
    /\ android \in BOOLEAN
    /\ InitLogger
    /\ files = [p \in Paths |-> NoFile]
    /\ assets = [p \in Paths |-> NoFile]
    /\ openFiles = 0
    /\ stream = NoStream
    /\ saved = NoSave

NextLog ==
    \/ \E logType \in Severities : SetTraceLogLevel(logType)
    \/ \E logType \in Severities : SetTraceLogExit(logType)
    \/ \E callback \in Callbacks : SetTraceLogCallback(callback)
    \/ \E logType \in Severities, text \in UserFormats, ub \in {"proceed", "crash"} :
           TraceLog(logType, text, ub)

SpecLog == InitLog /\ [][NextLog]_vars

-----------------------------------------------------------------------------
(* Opening a file: the C library's fopen and the Android replacement *)

ModeR == <<"r">>
ModeRB == <<"r", "b">>
ModeRT == <<"r", "t">>
ModeW == <<"w">>
ModeWB == <<"w", "b">>
ModeWT == <<"w", "t">>
ModeA == <<"a">>
ModeRPlus == <<"r", "+">>
Modes == {ModeR, ModeRB, ModeRT, ModeW, ModeWB, ModeWT, ModeA, ModeRPlus}

Has(seq, x) == \E i \in 1..Len(seq) : seq[i] = x
Times(seq, x) == Cardinality({i \in 1..Len(seq) : seq[i] = x})
Take(seq, n) == SubSeq(seq, 1, n)

Exists(tree, name) == name \in Paths /\ tree[name].exists

\* an open that never truncates
AfterOpen_keeps(mode, old) == old

\* what an opened file holds: fopen with a "w" mode empties it
AfterOpen(mode, old) == IF mode[1] = "w" THEN <<>> ELSE old

\* the C library's fopen(name, mode); `ok`: the system grants the open.
\* The empty name names no file; "r" modes need the file, "w" truncates it,
\* "w" and "a" create it.
RealOpen(name, mode, ok) ==
    LET there == Exists(files, name)
        opens == name \in Paths /\ ok /\ (mode[1] = "r" => there)
        bytes == IF there THEN AfterOpen(mode, files[name].bytes) ELSE <<>>
    IN  [opened |-> opens, bundle |-> FALSE, events |-> <<"fopen">>,
         bytes |-> IF opens THEN bytes ELSE <<>>]

\* the mode compared whole against "wb" instead of by its first character
WriteMode_onlyWB(mode) == mode = <<"w", "b">>

\* mode[0] == 'w'
WriteMode(mode) == mode[1] = "w"

\* FILE *android_fopen(const char *fileName, const char *mode)
AndroidOpen(name, mode, ok) ==
    IF WriteMode(mode) THEN RealOpen(name, mode, ok)
    ELSE IF Exists(assets, name)
         THEN [opened |-> TRUE, bundle |-> TRUE,
               events |-> <<"AAssetManager_open", "funopen">>,
               bytes |-> assets[name].bytes]
         ELSE [RealOpen(name, mode, ok) EXCEPT !.events = <<"AAssetManager_open">> \o @]

\* fopen in the helpers: on Android the macro maps it to android_fopen
Open(name, mode, ok) ==
    IF android THEN AndroidOpen(name, mode, ok) ELSE RealOpen(name, mode, ok)

\* the file system after an open that reached the C library's fopen
Opened(o, name, bytes) ==
    IF o.opened /\ ~o.bundle THEN [files EXCEPT ![name] = FileOf(bytes)] ELSE files

-----------------------------------------------------------------------------
(* unsigned int: 32 bits, held as two 16-bit halves *)

Half == 65536

U32(x) ==
    IF x >= 0 THEN [hi |-> (x \div Half) % Half, lo |-> x % Half]
    ELSE [hi |-> (Half - 1) - ((((0 - x) - 1) \div Half) % Half),
          lo |-> (Half - 1) - (((0 - x) - 1) % Half)]

U32Inc(u) ==
    IF u.lo < Half - 1 THEN [u EXCEPT !.lo = @ + 1]
    ELSE [hi |-> (u.hi + 1) % Half, lo |-> 0]

U32Positive(u) == u.hi > 0 \/ u.lo > 0

U32Less(a, b) == a.hi < b.hi \/ (a.hi = b.hi /\ a.lo < b.lo)

\* the value as a number, for values below 2^31
U32Value(u) == u.hi * Half + u.lo

-----------------------------------------------------------------------------
(* The file helpers *)

MsgNotValid == "FILEIO: File name provided is not valid"
MsgOpenFailed == "FILEIO: [%s] Failed to open file"
MsgPartiallyLoaded == "FILEIO: [%s] File partially loaded"
MsgLoaded == "FILEIO: [%s] File loaded successfully"
MsgReadFailed == "FILEIO: [%s] Failed to read file"
MsgWriteFailed == "FILEIO: [%s] Failed to write file"
MsgPartiallyWritten == "FILEIO: [%s] File partially written"
MsgSaved == "FILEIO: [%s] File saved successfully"
MsgTextLoaded == "FILEIO: [%s] Text file loaded successfully"
MsgTextReadFailed == "FILEIO: [%s] Failed to read text file"
MsgTextOpenFailed == "FILEIO: [%s] Failed to open text file"
MsgTextWriteFailed == "FILEIO: [%s] Failed to write text file"
MsgTextSaved == "FILEIO: [%s] Text file saved successfully"

\* the null check left out
ValidName_unchecked(fileName) == TRUE

\* if (fileName != NULL)
ValidName(fileName) == fileName # NULL

\* the helper's TRACELOG call and what follows it: fclose(file) when a
\* stream is open and TraceLog returned; exit(1) inside TraceLog closes
\* every stream and ends the process before the helper's fclose.
Report(rec, logType, text) ==
    LET e == TraceLogEffect(logType, text, "proceed")
        r == Logged(rec, logType, text, e)
    IN  /\ last' = IF rec.opened /\ e.ends = "return"
                   THEN [r EXCEPT !.events = @ \o <<"fclose">>] ELSE r
        /\ proc' = ProcAfter(e.ends)
        /\ openFiles' = StreamsAfter(e.ends, openFiles)
        /\ stream' = IF e.ends = "exit" THEN NoStream ELSE stream

\* int size = ftell(file);  `failed`: ftell returns -1
Tell(bytes, failed) == IF failed THEN 0 - 1 ELSE Len(bytes)

\* unsigned char *LoadFileData(const char *fileName, unsigned int *bytesRead)
LoadFileData(fileName, ok, failed, got) ==
    /\ proc = "running"
    /\ LET rec0 == [Blank EXCEPT !.op = "LoadFileData", !.fileName = fileName,
                                 !.mode = ModeRB]
       IN  IF ~ValidName(fileName)
           THEN Report(rec0, LOG_WARNING, MsgNotValid)
           ELSE LET o == Open(fileName, ModeRB, ok)
                    size == Tell(o.bytes, failed)
                    rec1 == [rec0 EXCEPT !.events = o.events, !.opened = o.opened,
                                         !.bundle = o.bundle]
                    rec2 == [rec1 EXCEPT !.events = @ \o <<"fseek", "ftell", "fseek">>,
                                         !.tell = size]
                    rec3 == [rec2 EXCEPT !.events = @ \o <<"malloc", "fread">>,
                                         !.alloc = size, !.want = size,
                                         !.count = got, !.bytesRead = got,
                                         !.buffer = [null |-> FALSE,
                                                     bytes |-> Take(o.bytes, got),
                                                     size |-> size]]
                IN  IF ~o.opened THEN Report(rec1, LOG_WARNING, MsgOpenFailed)
                    ELSE IF size > 0
                         THEN /\ got <= size
                              /\ IF got # size
                                 THEN Report(rec3, LOG_WARNING, MsgPartiallyLoaded)
                                 ELSE Report(rec3, LOG_INFO, MsgLoaded)
                         ELSE /\ got = 0
                              /\ Report(rec2, LOG_WARNING, MsgReadFailed)
    /\ UNCHANGED <<android, logTypeLevel, logTypeExit, logCallback, files,
                   assets, saved>>

\* the record of a save that wrote every byte; anything else forgets it
Keep(fileName, data, count) ==
    IF count = Len(data) THEN [valid |-> TRUE, name |-> fileName, bytes |-> data]
    ELSE NoSave

\* void SaveFileData(const char *fileName, void *data, unsigned int bytesToWrite)
\* `data` are the bytesToWrite bytes passed; `wrote`: what fwrite returns
SaveFileData(fileName, data, ok, wrote) ==
    /\ proc = "running"
    /\ LET rec0 == [Blank EXCEPT !.op = "SaveFileData", !.fileName = fileName,
                                 !.mode = ModeWB]
       IN  IF ~ValidName(fileName)
           THEN /\ Report(rec0, LOG_WARNING, MsgNotValid)
                /\ UNCHANGED <<files, saved>>
           ELSE LET o == Open(fileName, ModeWB, ok)
                    rec1 == [rec0 EXCEPT !.events = o.events, !.opened = o.opened,
                                         !.bundle = o.bundle]
                    rec2 == [rec1 EXCEPT !.events = @ \o <<"fwrite">>,
                                         !.want = Len(data), !.count = wrote]
                IN  IF ~o.opened
                    THEN /\ Report(rec1, LOG_WARNING, MsgOpenFailed)
                         /\ UNCHANGED <<files, saved>>
                    ELSE /\ files' = Opened(o, fileName, o.bytes \o Take(data, wrote))
                         /\ saved' = Keep(fileName, data, wrote)
                         /\ IF wrote = 0
                            THEN Report(rec2, LOG_WARNING, MsgWriteFailed)
                            ELSE IF wrote # Len(data)
                                 THEN Report(rec2, LOG_WARNING, MsgPartiallyWritten)
                                 ELSE Report(rec2, LOG_INFO, MsgSaved)
    /\ UNCHANGED <<android, logTypeLevel, logTypeExit, logCallback, assets>>

\* char *LoadFileText(const char *fileName)
\* unsigned int size = (unsigned int)ftell(textFile); the allocation is
\* (size + 1) in unsigned arithmetic.  `got`: what fread returns.  A read
\* that stores more bytes than were allocated is undefined behaviour: `ub`
\* is "proceed" (the helper runs on) or "crash" (the process dies in fread).
LoadFileText(fileName, ok, failed, got, ub) ==
    /\ proc = "running"
    /\ LET rec0 == [Blank EXCEPT !.op = "LoadFileText", !.fileName = fileName,
                                 !.mode = ModeRT]
       IN  IF ~ValidName(fileName)
           THEN /\ ub = "proceed"
                /\ Report(rec0, LOG_WARNING, MsgNotValid)
           ELSE LET o == Open(fileName, ModeRT, ok)
                    tell == Tell(o.bytes, failed)
                    size == U32(tell)
                    alloc == U32Value(U32Inc(size))
                    count == U32(got)
                    shrinks == U32Less(count, size)
                    rec1 == [rec0 EXCEPT !.events = o.events, !.opened = o.opened,
                                         !.bundle = o.bundle]
                    rec2 == [rec1 EXCEPT !.events = @ \o <<"fseek", "ftell", "fseek">>,
                                         !.tell = tell]
                    rec3 == [rec2 EXCEPT !.events = @ \o <<"malloc", "fread">>,
                                         !.alloc = alloc, !.count = got]
                    rec4 == [rec3 EXCEPT !.events = @ \o (IF shrinks THEN <<"realloc">>
                                                          ELSE <<>>),
                                         !.bytesRead = got,
                                         !.buffer = [null |-> FALSE,
                                                     bytes |-> Take(o.bytes, got),
                                                     size |-> IF shrinks THEN got + 1
                                                              ELSE alloc]]
                IN  IF ~o.opened
                    THEN /\ ub = "proceed"
                         /\ Report(rec1, LOG_WARNING, MsgTextOpenFailed)
                    ELSE IF U32Positive(size)
                         THEN /\ got <= Len(o.bytes)
                              /\ ~U32Less(size, count)
                              /\ IF ub = "crash" THEN got > alloc ELSE TRUE
                              /\ IF ub = "crash"
                                 THEN /\ last' = [rec3 EXCEPT !.events = @ \o <<"crash">>,
                                                              !.ends = "crash"]
                                      /\ proc' = ProcAfter("crash")
                                      /\ openFiles' = openFiles + 1
                                      /\ UNCHANGED stream
                                 ELSE Report(rec4, LOG_INFO, MsgTextLoaded)
                         ELSE /\ got = 0
                              /\ ub = "proceed"
                              /\ Report(rec2, LOG_WARNING, MsgTextReadFailed)
    /\ UNCHANGED <<android, logTypeLevel, logTypeExit, logCallback, files,
                   assets, saved>>

\* void SaveFileText(const char *fileName, char *text)
\* `text`: the characters before the terminating '\0'.  `failed`: fprintf
\* returns a negative count, after `wrote` characters reached the file.
SaveFileText(fileName, text, ok, failed, wrote) ==
    /\ proc = "running"
    /\ LET rec0 == [Blank EXCEPT !.op = "SaveFileText", !.fileName = fileName,
                                 !.mode = ModeWT]
       IN  IF ~ValidName(fileName)
           THEN /\ Report(rec0, LOG_WARNING, MsgNotValid)
                /\ UNCHANGED <<files, saved>>
           ELSE LET o == Open(fileName, ModeWT, ok)
                    count == IF failed THEN 0 - 1 ELSE Len(text)
                    rec1 == [rec0 EXCEPT !.events = o.events, !.opened = o.opened,
                                         !.bundle = o.bundle]
                    rec2 == [rec1 EXCEPT !.events = @ \o <<"fprintf">>,
                                         !.want = Len(text), !.count = count]
                IN  IF ~o.opened
                    THEN /\ Report(rec1, LOG_WARNING, MsgTextOpenFailed)
                         /\ UNCHANGED <<files, saved>>
                    ELSE /\ IF failed THEN TRUE ELSE wrote = Len(text)
                         /\ files' = Opened(o, fileName, o.bytes \o Take(text, wrote))
                         /\ saved' = NoSave
                         /\ IF count < 0
                            THEN Report(rec2, LOG_WARNING, MsgTextWriteFailed)
                            ELSE Report(rec2, LOG_INFO, MsgTextSaved)
    /\ UNCHANGED <<android, logTypeLevel, logTypeExit, logCallback, assets>>

-----------------------------------------------------------------------------
(* The program with its file helpers, in either build *)

\* The helpers and the shim log at LOG_INFO and LOG_WARNING only: the
\* thresholds set here are those two (at or below one or both of the
\* severities logged) and LOG_ERROR (above both).
HelperLevels == {LOG_INFO, LOG_WARNING, LOG_ERROR}

AssetBytes == <<1, 0>>

Init ==
    /\ android \in BOOLEAN
    /\ InitLogger
    /\ files = [p \in Paths |-> NoFile]
    /\ assets \in [Paths -> IF android THEN {NoFile, FileOf(AssetBytes)} ELSE {NoFile}]
    /\ openFiles = 0
    /\ stream = NoStream
    /\ saved = NoSave

\* The environment's answers are drawn only where the call consults them:
\* an open is granted or refused only for a name that names a file, and a
\* size query or a transfer happens only on an open stream.
Consulted(fileName, ok) == fileName \in Paths /\ ok

ReadInputs ==
    {i \in FileNames \X BOOLEAN \X BOOLEAN \X (0..MaxLen) :
        IF Consulted(i[1], i[2]) THEN TRUE
        ELSE (i[1] \in Paths \/ i[2]) /\ ~i[3] /\ i[4] = 0}

WriteInputs(data) ==
    {i \in FileNames \X data \X BOOLEAN \X BOOLEAN \X (0..MaxLen) :
        IF Consulted(i[1], i[3]) THEN i[5] <= Len(i[2])
        ELSE (i[1] \in Paths \/ i[3]) /\ i[2] = <<>> /\ ~i[4] /\ i[5] = 0}

\* fwrite reports no failure apart from its count
SaveInputs == {i \in WriteInputs(Contents) : ~i[4]}

\* the characters of a C string, before its terminating '\0'
Strings == {c \in Contents : \A n \in 1..Len(c) : c[n] # 0}

Outcomes == {"proceed", "crash"}

Next ==
    \/ \E logType \in HelperLevels : SetTraceLogLevel(logType)
    \/ \E logType \in HelperLevels : SetTraceLogExit(logType)
    \/ \E callback \in Callbacks : SetTraceLogCallback(callback)
    \/ \E i \in ReadInputs : LoadFileData(i[1], i[2], i[3], i[4])
    \/ \E i \in SaveInputs : SaveFileData(i[1], i[2], i[3], i[5])
    \/ \E i \in ReadInputs, ub \in Outcomes : LoadFileText(i[1], i[2], i[3], i[4], ub)
    \/ \E i \in WriteInputs(Strings) : SaveFileText(i[1], i[2], i[3], i[4], i[5])

Spec == Init /\ [][Next]_vars

-----------------------------------------------------------------------------
(* The Android asset shim, as its clients and the stream layer call it.    *)
(* InitAssetManager has run: `assets` is the bundle behind assetManager    *)
(* and `files` the files under internalDataPath.  `stream` is the asset    *)
(* (the funopen cookie) of the stream the client holds, if any.            *)

MsgApk == "ANDROID: Failed to provide write access to APK"

\* FILE *android_fopen(const char *fileName, const char *mode)
android_fopen(fileName, mode, ok) ==
    /\ android
    /\ proc = "running"
    /\ stream.kind = "none"
    /\ LET o == AndroidOpen(fileName, mode, ok)
       IN  /\ last' = [Blank EXCEPT !.op = "android_fopen", !.fileName = fileName,
                                    !.mode = mode, !.events = o.events,
                                    !.opened = o.opened, !.bundle = o.bundle]
           /\ stream' = IF o.opened /\ o.bundle
                        THEN [kind |-> "asset", name |-> fileName, pos |-> 0]
                        ELSE NoStream
           /\ files' = Opened(o, fileName, o.bytes)
    /\ saved' = NoSave
    /\ UNCHANGED <<android, logTypeLevel, logTypeExit, logCallback, proc,
                   assets, openFiles>>

Min(a, b) == IF a < b THEN a ELSE b

\* static int android_read(void *cookie, char *buf, int size)
android_read(size) ==
    /\ android
    /\ proc = "running"
    /\ stream.kind = "asset"
    /\ LET bytes == assets[stream.name].bytes
           n == Min(size, Len(bytes) - stream.pos)
       IN  /\ last' = [Blank EXCEPT !.op = "android_read", !.events = <<"AAsset_read">>,
                                    !.want = size, !.tell = stream.pos,
                                    !.buffer = [null |-> FALSE,
                                                bytes |-> SubSeq(bytes, stream.pos + 1,
                                                                 stream.pos + n),
                                                size |-> size],
                                    !.result = n]
           /\ stream' = [stream EXCEPT !.pos = @ + n]
    /\ UNCHANGED <<android, logTypeLevel, logTypeExit, logCallback, proc, files,
                   assets, openFiles, saved>>

\* static int android_write(void *cookie, const char *buf, int size)
android_write(size) ==
    /\ android
    /\ proc = "running"
    /\ stream.kind = "asset"
    /\ Report([Blank EXCEPT !.op = "android_write", !.want = size,
                            !.tell = stream.pos, !.result = EACCES],
              LOG_WARNING, MsgApk)
    /\ UNCHANGED <<android, logTypeLevel, logTypeExit, logCallback, files,
                   assets, saved>>

Whences == {"SEEK_SET", "SEEK_CUR", "SEEK_END"}

\* static fpos_t android_seek(void *cookie, fpos_t offset, int whence)
android_seek(offset, whence) ==
    /\ android
    /\ proc = "running"
    /\ stream.kind = "asset"
    /\ LET length == Len(assets[stream.name].bytes)
           base == CASE whence = "SEEK_SET" -> 0
                     [] whence = "SEEK_CUR" -> stream.pos
                     [] whence = "SEEK_END" -> length
           to == base + offset
           valid == to >= 0 /\ to <= length
       IN  /\ last' = [Blank EXCEPT !.op = "android_seek", !.events = <<"AAsset_seek">>,
                                    !.tell = stream.pos,
                                    !.result = IF valid THEN to ELSE 0 - 1]
           /\ stream' = IF valid THEN [stream EXCEPT !.pos = to] ELSE stream
    /\ UNCHANGED <<android, logTypeLevel, logTypeExit, logCallback, proc, files,
                   assets, openFiles, saved>>

\* static int android_close(void *cookie)
android_close ==
    /\ android
    /\ proc = "running"
    /\ stream.kind = "asset"
    /\ last' = [Blank EXCEPT !.op = "android_close", !.events = <<"AAsset_close">>,
                             !.tell = stream.pos, !.result = 0]
    /\ stream' = NoStream
    /\ UNCHANGED <<android, logTypeLevel, logTypeExit, logCallback, proc, files,
                   assets, openFiles, saved>>

InitAsset ==
    /\ android = TRUE
    /\ InitLogger
    /\ files = [p \in Paths |-> NoFile]
    /\ assets \in [Paths -> {NoFile, FileOf(AssetBytes)}]
    /\ openFiles = 0
    /\ stream = NoStream
    /\ saved = NoSave

OpenNames == {"", Path}

NextAsset ==
    \/ \E logType \in HelperLevels : SetTraceLogLevel(logType)
    \/ \E logType \in HelperLevels : SetTraceLogExit(logType)
    \/ \E callback \in Callbacks : SetTraceLogCallback(callback)
    \/ \E fileName \in OpenNames, mode \in Modes, ok \in BOOLEAN :
           android_fopen(fileName, mode, ok)
    \/ \E size \in 0..MaxLen : android_read(size)
    \/ \E size \in 0..MaxLen : android_write(size)
    \/ \E offset \in 0..MaxLen, whence \in Whences : android_seek(offset, whence)
    \/ android_close

SpecAsset == InitAsset /\ [][NextAsset]_vars

-----------------------------------------------------------------------------
(* Properties *)

Helpers == {"LoadFileData", "SaveFileData", "LoadFileText", "SaveFileText"}
Loaders == {"LoadFileData", "LoadFileText"}

\* the calls TraceLog itself makes
LogCalls == {"logCallback", "vprintf", "__android_log_vprint", "exit"}

\* the calls an operation made apart from those of its TraceLog call
Others(events) == SelectSeq(events, LAMBDA c : c \notin LogCalls)

\* C1: a TraceLog call whose severity is below the minimum level does
\* nothing: no sink is written, the callback is not invoked, the staging
\* buffer is not touched and the process keeps running, whatever the exit
\* threshold and the callback are.
C1_BelowLevelNoEffect ==
    (last.op = "TraceLog" /\ last.logType < logTypeLevel)
        => /\ last.events = <<>>
           /\ last.written = ""
           /\ last.cbLogType = 0 - 1
           /\ last.bufBytes = 0
           /\ proc = "running"

\* a call below the level, at or above the exit threshold, callback installed
C1_Witness ==
    /\ last.op = "TraceLog"
    /\ last.logType < logTypeLevel
    /\ last.logType >= logTypeExit
    /\ logCallback # NULL

\* C2: on the build with the default (stdout) sink, a TraceLog call without
\* callback whose severity is at or above both thresholds calls vprintf with
\* prefix + format + newline and then exit(1), in that order, and does not
\* return.
C2_EmitThenExit ==
    (/\ ~android
     /\ last.op = "TraceLog"
     /\ logCallback = NULL
     /\ last.logType >= logTypeLevel
     /\ last.logType >= logTypeExit)
        => /\ last.events = <<"vprintf", "exit">>
           /\ last.written = Compose(last.logType, last.text)
           /\ proc = "exited"

\* C3: with a callback installed, a message at or above the minimum level
\* reaches the callback exactly once, with the severity and the format of
\* the call, nothing is written by a default sink and the process keeps
\* running whatever the exit threshold; with the callback cleared the
\* callback is not invoked and a message at or above the exit threshold
\* ends the process.
C3_CallbackReplacesDefault ==
    (last.op = "TraceLog" /\ last.logType >= logTypeLevel)
        => IF logCallback # NULL
           THEN /\ last.events = <<"logCallback">>
                /\ last.cbLogType = last.logType
                /\ last.cbText = last.text
                /\ last.written = ""
                /\ last.bufBytes = 0
                /\ proc = "running"
           ELSE /\ ~Has(last.events, "logCallback")
                /\ last.cbLogType = 0 - 1
                /\ last.events # <<"crash">> =>
                       IF android
                       THEN Has(last.events, "__android_log_vprint") = AndroidPrints(last.logType)
                       ELSE last.events[1] = "vprintf"
                /\ last.logType >= logTypeExit => proc # "running"
                /\ last.logType < logTypeExit => proc # "exited"

\* a LOG_FATAL message at or above the exit threshold went to the callback
C3_Witness ==
    /\ last.op = "TraceLog"
    /\ logCallback # NULL
    /\ last.logType = LOG_FATAL
    /\ logTypeExit <= LOG_FATAL
    /\ last.events = <<"logCallback">>
    /\ proc = "running"

\* C10: the bytes TraceLog stores into its staging buffer never exceed
\* MAX_TRACELOG_MSG_LENGTH.
C10_BufferBound == last.bufBytes <= MAX_TRACELOG_MSG_LENGTH


CleanLoad == last.opened /\ last.tell >= 0 /\ last.count = last.want

C6_NoSizeNoRead ==
    (last.op \in Loaders /\ Has(last.events, "ftell") /\ last.tell <= 0)
        => /\ last.alloc = 0 - 1
           /\ ~Has(last.events, "malloc")
           /\ ~Has(last.events, "fread")
           /\ last.traces = 1
           /\ last.logType = LOG_WARNING
           /\ last.buffer.null
           /\ last.bytesRead = 0

\* C9: after a helper, no stream it opened is left open: a helper that
\* returns has called fclose exactly once when its open succeeded and not at
\* all otherwise (a helper ended by exit(1) has its stream closed by exit).
C9_NoHandleLeak ==
    last.op \in Helpers
        => /\ openFiles = 0
           /\ (last.opened /\ last.ends = "return") => Times(last.events, "fclose") = 1
           /\ ~last.opened => Times(last.events, "fclose") = 0

\* a mode that asks for writing: "w", "a" and the update modes
WriteIntent(mode) == mode[1] \in {"w", "a"} \/ Has(mode, "+")

\* C7 as claimed: android_fopen with a mode of write intent never opens the
\* asset bundle and makes the one fopen under the base path.
C7_WriteIntentBypassesBundle ==
    (last.op = "android_fopen" /\ WriteIntent(last.mode))
        => last.events = <<"fopen">>

\* C7 amended: android_fopen with a mode that begins with 'w' makes the one
\* fopen under the base path and never opens the bundle; with any other mode
\* (append and update modes included) it opens the bundle first, returns the
\* adapter over the asset when the bundle holds the path and falls back to
\* the fopen under the base path when it does not.
C7_WModeBypassesBundle ==
    last.op = "android_fopen"
        => IF last.mode[1] = "w"
           THEN last.events = <<"fopen">> /\ ~last.bundle
           ELSE IF Exists(assets, last.fileName)
                THEN /\ last.events = <<"AAssetManager_open", "funopen">>
                     /\ last.bundle
                ELSE /\ last.events = <<"AAssetManager_open", "fopen">>
                     /\ ~last.bundle

\* a "wt" open of a path the bundle holds went to fopen alone
C7_Witness ==
    /\ last.op = "android_fopen"
    /\ last.mode = ModeWT
    /\ Exists(assets, last.fileName)
    /\ last.opened
    /\ last.events = <<"fopen">>

\* C8: android_write reports failure to the stream layer with a negative
\* result, calls TraceLog once, at LOG_WARNING, and leaves the read position
\* where it was.
C8_WriteReportsError ==
    last.op = "android_write"
        => /\ last.result < 0
           /\ last.traces = 1
           /\ last.logType = LOG_WARNING
           /\ proc = "running" => stream.pos = last.tell

=============================================================================
